---- MODULE Spec2Model ----
(***************************************************************************)
(* Model of the Streamlit PDF -> DOCX converter (src/streamlit_app.py):    *)
(* the text sanitizer clean_text, the heuristic page_needs_ocr, the page   *)
(* loop of convert_pdf and the Convert button handler that calls it.       *)
(*                                                                         *)
(* A string is a sequence of code points.  The external libraries          *)
(* (PyMuPDF, pdfplumber, Tesseract, python-docx) are not modelled: what a  *)
(* call returns is chosen from a small set of values, and a call that can  *)
(* raise has a failing action beside the succeeding one.  zoom and         *)
(* ocr_lang are passed through to those libraries only and are left out.   *)
(***************************************************************************)
EXTENDS Integers, Sequences, FiniteSets

VARIABLES
    ui,                 \* front end: what the page shows
    download,           \* the download button: [offered, data]
    file_pages,         \* number of pages of the uploaded PDF
    mode,               \* sidebar: processing mode
    add_page_headings,  \* sidebar: checkbox
    pc,                 \* position inside convert_pdf
    fitz_handle,        \* doc_fitz: "unopened" | "open" | "closed"
    plumber_handle,     \* doc_plumber: "unopened" | "open" | "closed"
    total,              \* len(doc_fitz)
    i,                  \* loop variable of the page loop
    parsed_text,        \* local of the loop body
    tables,             \* local of the loop body
    need_ocr,           \* local of the loop body
    page_text_written,  \* local of the loop body
    ti,                 \* position of "for tbl in tables" (1-based)
    out_doc,            \* the python-docx document: its sequence of blocks
    progress,           \* pages reported to the progress bar
    bio,                \* the BytesIO the document is saved to: [some, data]
    ret,                \* what convert_pdf returned: [some, data]
    visits,             \* history: page indices whose loop body was entered
    rendered,           \* history: get_pixmap was called for the current page
    ocr_called,         \* history: image_to_string was called for the current page
    tables_failed,      \* history: the pages on which extract_tables raised
    raised_by           \* history: the call that raised out of convert_pdf

vars == << ui, download, file_pages, mode, add_page_headings, pc, fitz_handle,
           plumber_handle, total, i, parsed_text, tables, need_ocr,
           page_text_written, ti, out_doc, progress, bio, ret, visits, rendered,
           ocr_called, tables_failed, raised_by >>

(***************************************************************************)
(* Bounds and program constants                                            *)
(***************************************************************************)
MaxPages == 2

OcrThreshold == 25

HeadingLevel == 2

Auto == "Auto (Hybrid)"

ForceOCR == "Force OCR (all pages)"

ParserOnly == "Parser only (no OCR)"

Modes == {Auto, ForceOCR, ParserOnly}

(***************************************************************************)
(* Strings                                                                 *)
(***************************************************************************)
Rep(c, n) == [k \in 1..n |-> c]

\* The character class of the regular expression of clean_text.
RemovedChars == (0..8) \cup {11, 12} \cup (14..31) \cup {127}

\* A variant that forgets DEL (0x7f) and the form feed.
clean_text_keeps_del(text) == SelectSeq(text, LAMBDA c : c \notin ((0..8) \cup {11} \cup (14..31)))

clean_text(text) == SelectSeq(text, LAMBDA c : c \notin RemovedChars)

\* str.isalpha on the model's alphabet (ASCII letters).
IsAlpha(c) == c \in (65..90) \cup (97..122)

\* str.isspace on the model's alphabet (ASCII).
IsSpace(c) == c \in (9..13) \cup (28..32)

\* str.strip()
Strip(s) ==
    LET keep == {k \in 1..Len(s) : ~IsSpace(s[k])}
    IN  IF keep = {} THEN << >>
        ELSE SubSeq(s, CHOOSE k \in keep : \A m \in keep : k <= m,
                       CHOOSE k \in keep : \A m \in keep : k >= m)

Letters(s) == Cardinality({k \in 1..Len(s) : IsAlpha(s[k])})

\* A variant with the comparison off by one.
page_needs_ocr_le(text) ==
    IF text = << >> THEN TRUE ELSE Letters(text) <= OcrThreshold

page_needs_ocr(text) ==
    IF text = << >> THEN TRUE ELSE Letters(text) < OcrThreshold

\* str(n) for a natural number.
RECURSIVE Decimal(_)
Decimal(n) == IF n < 10 THEN << 48 + n >> ELSE Decimal(n \div 10) \o << 48 + (n % 10) >>

\* f"Page {i+1}"
PageTitle(k) == << 80, 97, 103, 101, 32 >> \o Decimal(k + 1)

\* "[No text detected]"
NoTextDetected ==
    << 91, 78, 111, 32, 116, 101, 120, 116, 32, 100, 101, 116, 101, 99, 116, 101, 100, 93 >>

\* "[No extractable content on this page]"
NoExtractableContent ==
    << 91, 78, 111, 32, 101, 120, 116, 114, 97, 99, 116, 97, 98, 108, 101, 32, 99, 111,
       110, 116, 101, 110, 116, 32, 111, 110, 32, 116, 104, 105, 115, 32, 112, 97, 103,
       101, 93 >>

(***************************************************************************)
(* What the libraries may return                                           *)
(***************************************************************************)
\* page.get_text("text")
RawTexts ==
    { << >>,
      << 0, 7 >>,                                      \* control characters only
      << 32, 10 >>,                                    \* blank and line feed
      Rep(65, 24) \o << 49, 9 >>,                      \* 24 letters, a digit, a tab
      << 127 >> \o Rep(97, 25) \o << 10, 11 >> }       \* DEL, 25 letters, LF, VT

\* A cell of an extracted table: None or a string.
NoneCell == [none |-> TRUE, str |-> << >>]

Cell(s) == [none |-> FALSE, str |-> s]

\* page.extract_tables(): a list of tables, a table a list of rows.
TableLists ==
    { << >>,
      << << >> >>,                                                 \* one empty table
      << << << >> >>, << << Cell(<< 97, 0, 98 >>), NoneCell >> >> >>,   \* [[]] and a 1x2 table
      << << << Cell(<< 9, 99 >>), Cell(<< 127 >>) >>,
            << NoneCell, Cell(<< 100, 10, 27 >>) >> >>,            \* a 2x2 table
         << >>,
         << << Cell(<< 101 >>) >> >> >> }                          \* then [] and a 1x1 table

\* pytesseract.image_to_string
OcrTexts ==
    { << >>,
      << 32, 12, 10 >>,              \* blank, form feed, line feed
      << 31, 72, 105, 9, 1 >> }      \* US, "Hi", tab, SOH

(***************************************************************************)
(* Blocks of the output document.  page and step record which iteration    *)
(* and which numbered step of the loop body appended the block.            *)
(***************************************************************************)
Heading(k) ==
    [kind |-> "heading", page |-> k, step |-> 1, level |-> HeadingLevel,
     text |-> PageTitle(k), rows |-> 0, cols |-> 0, cells |-> << >>]

Paragraph(k, s, t) ==
    [kind |-> "paragraph", page |-> k, step |-> s, level |-> 0,
     text |-> t, rows |-> 0, cols |-> 0, cells |-> << >>]

\* val is not None ? str(val) : ""
CellString(val) == IF val.none THEN << >> ELSE val.str

\* A variant that writes the cell strings as extracted.
TableBlock_raw(k, tbl) ==
    [kind |-> "table", page |-> k, step |-> 5, level |-> 0, text |-> << >>,
     rows |-> Len(tbl), cols |-> Len(tbl[1]),
     cells |-> [r \in 1..Len(tbl) |-> [c \in 1..Len(tbl[1]) |-> CellString(tbl[r][c])]]]

\* add_table(rows, cols) and the two loops that fill its cells.
TableBlock(k, tbl) ==
    [kind |-> "table", page |-> k, step |-> 5, level |-> 0, text |-> << >>,
     rows |-> Len(tbl), cols |-> Len(tbl[1]),
     cells |-> [r \in 1..Len(tbl) |->
                  [c \in 1..Len(tbl[1]) |-> clean_text(CellString(tbl[r][c]))]]]

\* not tbl or not tbl[0]
Malformed(tbl) == IF tbl = << >> THEN TRUE ELSE tbl[1] = << >>

NoBytes == [some |-> FALSE, data |-> << >>]

Bytes(d) == [some |-> TRUE, data |-> d]

NoDownload == [offered |-> FALSE, data |-> << >>]

(***************************************************************************)
(* Initial state: the script has run once, no file is uploaded.            *)
(***************************************************************************)
\* The locals of a call of convert_pdf before its first statement.
FrameInit ==
    /\ pc = "idle"
    /\ fitz_handle = "unopened"
    /\ plumber_handle = "unopened"
    /\ total = 0
    /\ i = 0
    /\ parsed_text = << >>
    /\ tables = << >>
    /\ need_ocr = FALSE
    /\ page_text_written = FALSE
    /\ ti = 0
    /\ out_doc = << >>
    /\ progress = 0
    /\ bio = NoBytes
    /\ ret = NoBytes
    /\ visits = << >>
    /\ rendered = FALSE
    /\ ocr_called = FALSE
    /\ tables_failed = {}
    /\ raised_by = "none"

Init ==
    /\ ui = "no_file"
    /\ download = NoDownload
    /\ file_pages = 0
    /\ mode = Auto
    /\ add_page_headings = TRUE
    /\ FrameInit

frame == << pc, fitz_handle, plumber_handle, total, i, parsed_text, tables, need_ocr,
            page_text_written, ti, out_doc, progress, bio, ret, visits, rendered,
            ocr_called, tables_failed, raised_by >>

front == << ui, download, file_pages, mode, add_page_headings >>

\* A variant in which the exception is swallowed and the loop goes on.
Raise_skip_page(what) ==
    /\ pc' = "progress"
    /\ raised_by' = what

\* An exception leaves convert_pdf from the call named by what.
Raise(what) ==
    /\ pc' = "raised"
    /\ raised_by' = what

(***************************************************************************)
(* Front end                                                               *)
(***************************************************************************)
\* st.file_uploader returns a file.
Upload ==
    /\ ui = "no_file"
    /\ \E n \in 0..MaxPages : file_pages' = n
    /\ ui' = "received"
    /\ UNCHANGED << download, mode, add_page_headings >>
    /\ UNCHANGED frame

\* st.button("Convert") is pressed: convert_pdf is called with the sidebar's values.
ClickConvert ==
    /\ ui = "received"
    /\ pc = "idle"
    /\ \E m \in Modes : mode' = m
    /\ \E h \in BOOLEAN : add_page_headings' = h
    /\ ui' = "converting"
    /\ pc' = "open_fitz"
    /\ UNCHANGED << download, file_pages >>
    /\ UNCHANGED << fitz_handle, plumber_handle, total, i, parsed_text, tables, need_ocr,
                    page_text_written, ti, out_doc, progress, bio, ret, visits, rendered,
                    ocr_called, tables_failed, raised_by >>

\* convert_pdf returned: st.success and st.download_button.
ShowDownload ==
    /\ ui = "converting"
    /\ pc = "returned"
    /\ ui' = "success"
    /\ download' = [offered |-> TRUE, data |-> ret.data]
    /\ UNCHANGED << file_pages, mode, add_page_headings >>
    /\ UNCHANGED frame

\* convert_pdf raised: except Exception, st.error.
ShowError ==
    /\ ui = "converting"
    /\ pc = "raised"
    /\ ui' = "error"
    /\ UNCHANGED << download, file_pages, mode, add_page_headings >>
    /\ UNCHANGED frame

\* Any later interaction reruns the script: the button reads False again and
\* nothing of the previous run is left.
Rerun ==
    /\ ui \in {"success", "error"}
    /\ ui' = "received"
    /\ download' = NoDownload
    /\ pc' = "idle"
    /\ fitz_handle' = "unopened"
    /\ plumber_handle' = "unopened"
    /\ total' = 0
    /\ i' = 0
    /\ parsed_text' = << >>
    /\ tables' = << >>
    /\ need_ocr' = FALSE
    /\ page_text_written' = FALSE
    /\ ti' = 0
    /\ out_doc' = << >>
    /\ progress' = 0
    /\ bio' = NoBytes
    /\ ret' = NoBytes
    /\ visits' = << >>
    /\ rendered' = FALSE
    /\ ocr_called' = FALSE
    /\ tables_failed' = {}
    /\ raised_by' = "none"
    /\ UNCHANGED << file_pages, mode, add_page_headings >>

(***************************************************************************)
(* convert_pdf: opening the document                                       *)
(***************************************************************************)
OpenFitz ==
    /\ pc = "open_fitz"
    /\ fitz_handle' = "open"
    /\ pc' = "open_plumber"
    /\ UNCHANGED front
    /\ UNCHANGED << plumber_handle, total, i, parsed_text, tables, need_ocr,
                    page_text_written, ti, out_doc, progress, bio, ret, visits, rendered,
                    ocr_called, tables_failed, raised_by >>

OpenFitzFail ==
    /\ pc = "open_fitz"
    /\ Raise("open_fitz")
    /\ UNCHANGED front
    /\ UNCHANGED << fitz_handle, plumber_handle, total, i, parsed_text, tables, need_ocr,
                    page_text_written, ti, out_doc, progress, bio, ret, visits, rendered,
                    ocr_called, tables_failed >>

\* pdfplumber.open, Document(), st.progress, total = len(doc_fitz); the loop starts at 0.
OpenPlumber ==
    /\ pc = "open_plumber"
    /\ plumber_handle' = "open"
    /\ out_doc' = << >>
    /\ progress' = 0
    /\ total' = file_pages
    /\ i' = 0
    /\ pc' = "loop"
    /\ UNCHANGED front
    /\ UNCHANGED << fitz_handle, parsed_text, tables, need_ocr, page_text_written, ti,
                    bio, ret, visits, rendered, ocr_called, tables_failed, raised_by >>

OpenPlumberFail ==
    /\ pc = "open_plumber"
    /\ Raise("open_plumber")
    /\ UNCHANGED front
    /\ UNCHANGED << fitz_handle, plumber_handle, total, i, parsed_text, tables, need_ocr,
                    page_text_written, ti, out_doc, progress, bio, ret, visits, rendered,
                    ocr_called, tables_failed >>

(***************************************************************************)
(* convert_pdf: the conditions of the loop body                            *)
(***************************************************************************)
\* need_ocr = (mode == Force OCR) or (mode == Auto and page_needs_ocr(parsed_text))
NeedOcr(m, text) == (m = ForceOCR) \/ (m = Auto /\ page_needs_ocr(text))

\* if parsed_text and not need_ocr
WritesParsedText(text, ocr) == text # << >> /\ ~ocr

\* if tables and not need_ocr
WritesTables(tbls, ocr) == tbls # << >> /\ ~ocr

\* A variant that puts the spacing paragraph before the table.
TableBlocks_spacing_first(k, tbl) == << Paragraph(k, 5, << >>), TableBlock(k, tbl) >>

\* The table block and the spacing paragraph after it.
TableBlocks(k, tbl) == << TableBlock(k, tbl), Paragraph(k, 5, << >>) >>

\* ocr_text if ocr_text.strip() else "[No text detected]"
OcrParagraphText(text) == IF Strip(text) # << >> THEN text ELSE NoTextDetected

\* A variant that never writes the placeholder.
WritesPlaceholder_never(written) == FALSE

\* A variant that writes the placeholder on every page.
WritesPlaceholder_always(written) == TRUE

\* if not page_text_written
WritesPlaceholder(written) == ~written

(***************************************************************************)
(* convert_pdf: the page loop                                              *)
(***************************************************************************)
\* for i in range(total): the body is entered for page i.
LoopEnter ==
    /\ pc = "loop"
    /\ i < total
    /\ visits' = Append(visits, i)
    /\ rendered' = FALSE
    /\ ocr_called' = FALSE
    /\ pc' = "parse"
    /\ UNCHANGED front
    /\ UNCHANGED << fitz_handle, plumber_handle, total, i, parsed_text, tables, need_ocr,
                    page_text_written, ti, out_doc, progress, bio, ret, tables_failed,
                    raised_by >>

\* The range is exhausted.
LoopExit ==
    /\ pc = "loop"
    /\ i >= total
    /\ pc' = "save"
    /\ UNCHANGED front
    /\ UNCHANGED << fitz_handle, plumber_handle, total, i, parsed_text, tables, need_ocr,
                    page_text_written, ti, out_doc, progress, bio, ret, visits, rendered,
                    ocr_called, tables_failed, raised_by >>

\* 1) parsed_text = clean_text(page_fitz.get_text("text"))
ParseText ==
    /\ pc = "parse"
    /\ mode \in {Auto, ParserOnly}
    /\ \E raw \in RawTexts : parsed_text' = clean_text(raw)
    /\ pc' = "tables"
    /\ UNCHANGED front
    /\ UNCHANGED << fitz_handle, plumber_handle, total, i, tables, need_ocr,
                    page_text_written, ti, out_doc, progress, bio, ret, visits, rendered,
                    ocr_called, tables_failed, raised_by >>

\* get_text raises.
ParseTextFail ==
    /\ pc = "parse"
    /\ mode \in {Auto, ParserOnly}
    /\ parsed_text' = << >>
    /\ Raise("parse")
    /\ UNCHANGED front
    /\ UNCHANGED << fitz_handle, plumber_handle, total, i, tables, need_ocr,
                    page_text_written, ti, out_doc, progress, bio, ret, visits, rendered,
                    ocr_called, tables_failed >>

\* Force OCR: parsed_text stays "".
SkipParse ==
    /\ pc = "parse"
    /\ mode \notin {Auto, ParserOnly}
    /\ parsed_text' = << >>
    /\ pc' = "tables"
    /\ UNCHANGED front
    /\ UNCHANGED << fitz_handle, plumber_handle, total, i, tables, need_ocr,
                    page_text_written, ti, out_doc, progress, bio, ret, visits, rendered,
                    ocr_called, tables_failed, raised_by >>

\* 2) tables = page_plumber.extract_tables()
ExtractTables ==
    /\ pc = "tables"
    /\ mode \in {Auto, ParserOnly}
    /\ \E tl \in TableLists : tables' = tl
    /\ pc' = "decide"
    /\ UNCHANGED front
    /\ UNCHANGED << fitz_handle, plumber_handle, total, i, parsed_text, need_ocr,
                    page_text_written, ti, out_doc, progress, bio, ret, visits, rendered,
                    ocr_called, tables_failed, raised_by >>

\* A variant without the try/except around extract_tables.
ExtractTablesFail_raise ==
    /\ pc = "tables"
    /\ mode \in {Auto, ParserOnly}
    /\ tables' = << >>
    /\ tables_failed' = tables_failed \cup {i}
    /\ Raise("tables")
    /\ UNCHANGED front
    /\ UNCHANGED << fitz_handle, plumber_handle, total, i, parsed_text, need_ocr,
                    page_text_written, ti, out_doc, progress, bio, ret, visits, rendered,
                    ocr_called >>

\* extract_tables raises: except Exception, tables = [].
ExtractTablesFail ==
    /\ pc = "tables"
    /\ mode \in {Auto, ParserOnly}
    /\ tables' = << >>
    /\ tables_failed' = tables_failed \cup {i}
    /\ pc' = "decide"
    /\ UNCHANGED front
    /\ UNCHANGED << fitz_handle, plumber_handle, total, i, parsed_text, need_ocr,
                    page_text_written, ti, out_doc, progress, bio, ret, visits, rendered,
                    ocr_called, raised_by >>

\* Force OCR: tables stays [].
SkipTables ==
    /\ pc = "tables"
    /\ mode \notin {Auto, ParserOnly}
    /\ tables' = << >>
    /\ pc' = "decide"
    /\ UNCHANGED front
    /\ UNCHANGED << fitz_handle, plumber_handle, total, i, parsed_text, need_ocr,
                    page_text_written, ti, out_doc, progress, bio, ret, visits, rendered,
                    ocr_called, tables_failed, raised_by >>

\* 3) need_ocr, and page_text_written = False.
Decide ==
    /\ pc = "decide"
    /\ need_ocr' = NeedOcr(mode, parsed_text)
    /\ page_text_written' = FALSE
    /\ pc' = "heading"
    /\ UNCHANGED front
    /\ UNCHANGED << fitz_handle, plumber_handle, total, i, parsed_text, tables, ti,
                    out_doc, progress, bio, ret, visits, rendered, ocr_called,
                    tables_failed, raised_by >>

\* out_doc.add_heading(f"Page {i+1}", level=2)
AddHeading ==
    /\ pc = "heading"
    /\ add_page_headings
    /\ out_doc' = Append(out_doc, Heading(i))
    /\ pc' = "text"
    /\ UNCHANGED front
    /\ UNCHANGED << fitz_handle, plumber_handle, total, i, parsed_text, tables, need_ocr,
                    page_text_written, ti, progress, bio, ret, visits, rendered,
                    ocr_called, tables_failed, raised_by >>

SkipHeading ==
    /\ pc = "heading"
    /\ ~add_page_headings
    /\ pc' = "text"
    /\ UNCHANGED front
    /\ UNCHANGED << fitz_handle, plumber_handle, total, i, parsed_text, tables, need_ocr,
                    page_text_written, ti, out_doc, progress, bio, ret, visits, rendered,
                    ocr_called, tables_failed, raised_by >>

\* 4) the parsed text is added first.
AddParsedText ==
    /\ pc = "text"
    /\ WritesParsedText(parsed_text, need_ocr)
    /\ out_doc' = Append(out_doc, Paragraph(i, 4, parsed_text))
    /\ page_text_written' = TRUE
    /\ pc' = "tables_if"
    /\ UNCHANGED front
    /\ UNCHANGED << fitz_handle, plumber_handle, total, i, parsed_text, tables, need_ocr,
                    ti, progress, bio, ret, visits, rendered, ocr_called, tables_failed,
                    raised_by >>

SkipParsedText ==
    /\ pc = "text"
    /\ ~WritesParsedText(parsed_text, need_ocr)
    /\ pc' = "tables_if"
    /\ UNCHANGED front
    /\ UNCHANGED << fitz_handle, plumber_handle, total, i, parsed_text, tables, need_ocr,
                    page_text_written, ti, out_doc, progress, bio, ret, visits, rendered,
                    ocr_called, tables_failed, raised_by >>

\* 5) if tables and not need_ocr: the loop over the tables starts.
EnterTables ==
    /\ pc = "tables_if"
    /\ WritesTables(tables, need_ocr)
    /\ ti' = 1
    /\ pc' = "table"
    /\ UNCHANGED front
    /\ UNCHANGED << fitz_handle, plumber_handle, total, i, parsed_text, tables, need_ocr,
                    page_text_written, out_doc, progress, bio, ret, visits, rendered,
                    ocr_called, tables_failed, raised_by >>

SkipTablesStep ==
    /\ pc = "tables_if"
    /\ ~WritesTables(tables, need_ocr)
    /\ pc' = "ocr"
    /\ UNCHANGED front
    /\ UNCHANGED << fitz_handle, plumber_handle, total, i, parsed_text, tables, need_ocr,
                    page_text_written, ti, out_doc, progress, bio, ret, visits, rendered,
                    ocr_called, tables_failed, raised_by >>

\* if not tbl or not tbl[0]: continue
SkipTable ==
    /\ pc = "table"
    /\ ti <= Len(tables)
    /\ Malformed(tables[ti])
    /\ ti' = ti + 1
    /\ pc' = "table"
    /\ UNCHANGED front
    /\ UNCHANGED << fitz_handle, plumber_handle, total, i, parsed_text, tables, need_ocr,
                    page_text_written, out_doc, progress, bio, ret, visits, rendered,
                    ocr_called, tables_failed, raised_by >>

\* add_table, the cells, and the spacing paragraph.
EmitTable ==
    /\ pc = "table"
    /\ ti <= Len(tables)
    /\ ~Malformed(tables[ti])
    /\ out_doc' = out_doc \o TableBlocks(i, tables[ti])
    /\ ti' = ti + 1
    /\ pc' = "table"
    /\ UNCHANGED front
    /\ UNCHANGED << fitz_handle, plumber_handle, total, i, parsed_text, tables, need_ocr,
                    page_text_written, progress, bio, ret, visits, rendered, ocr_called,
                    tables_failed, raised_by >>

\* The tables are exhausted.
EndTables ==
    /\ pc = "table"
    /\ ti > Len(tables)
    /\ pc' = "ocr"
    /\ UNCHANGED front
    /\ UNCHANGED << fitz_handle, plumber_handle, total, i, parsed_text, tables, need_ocr,
                    page_text_written, ti, out_doc, progress, bio, ret, visits, rendered,
                    ocr_called, tables_failed, raised_by >>

\* 6) page_fitz.get_pixmap and pixmap_to_pil.
Render ==
    /\ pc = "ocr"
    /\ need_ocr
    /\ rendered' = TRUE
    /\ pc' = "ocr_run"
    /\ UNCHANGED front
    /\ UNCHANGED << fitz_handle, plumber_handle, total, i, parsed_text, tables, need_ocr,
                    page_text_written, ti, out_doc, progress, bio, ret, visits, ocr_called,
                    tables_failed, raised_by >>

\* get_pixmap raises.
RenderFail ==
    /\ pc = "ocr"
    /\ need_ocr
    /\ rendered' = TRUE
    /\ Raise("render")
    /\ UNCHANGED front
    /\ UNCHANGED << fitz_handle, plumber_handle, total, i, parsed_text, tables, need_ocr,
                    page_text_written, ti, out_doc, progress, bio, ret, visits, ocr_called,
                    tables_failed >>

SkipOcr ==
    /\ pc = "ocr"
    /\ ~need_ocr
    /\ pc' = "placeholder"
    /\ UNCHANGED front
    /\ UNCHANGED << fitz_handle, plumber_handle, total, i, parsed_text, tables, need_ocr,
                    page_text_written, ti, out_doc, progress, bio, ret, visits, rendered,
                    ocr_called, tables_failed, raised_by >>

\* image_to_string, clean_text, and the OCR paragraph.
RunOcr ==
    /\ pc = "ocr_run"
    /\ ocr_called' = TRUE
    /\ \E t \in OcrTexts : out_doc' = Append(out_doc, Paragraph(i, 6, OcrParagraphText(clean_text(t))))
    /\ page_text_written' = TRUE
    /\ pc' = "placeholder"
    /\ UNCHANGED front
    /\ UNCHANGED << fitz_handle, plumber_handle, total, i, parsed_text, tables, need_ocr,
                    ti, progress, bio, ret, visits, rendered, tables_failed, raised_by >>

\* image_to_string raises.
RunOcrFail ==
    /\ pc = "ocr_run"
    /\ ocr_called' = TRUE
    /\ Raise("ocr")
    /\ UNCHANGED front
    /\ UNCHANGED << fitz_handle, plumber_handle, total, i, parsed_text, tables, need_ocr,
                    page_text_written, ti, out_doc, progress, bio, ret, visits, rendered,
                    tables_failed >>

\* 7) if not page_text_written: the placeholder.
AddPlaceholder ==
    /\ pc = "placeholder"
    /\ WritesPlaceholder(page_text_written)
    /\ out_doc' = Append(out_doc, Paragraph(i, 7, NoExtractableContent))
    /\ pc' = "progress"
    /\ UNCHANGED front
    /\ UNCHANGED << fitz_handle, plumber_handle, total, i, parsed_text, tables, need_ocr,
                    page_text_written, ti, progress, bio, ret, visits, rendered,
                    ocr_called, tables_failed, raised_by >>

SkipPlaceholder ==
    /\ pc = "placeholder"
    /\ ~WritesPlaceholder(page_text_written)
    /\ pc' = "progress"
    /\ UNCHANGED front
    /\ UNCHANGED << fitz_handle, plumber_handle, total, i, parsed_text, tables, need_ocr,
                    page_text_written, ti, out_doc, progress, bio, ret, visits, rendered,
                    ocr_called, tables_failed, raised_by >>

\* progress.progress((i+1)/total), time.sleep; the loop goes to the next page.
ReportProgress ==
    /\ pc = "progress"
    /\ progress' = i + 1
    /\ i' = i + 1
    /\ pc' = "loop"
    /\ UNCHANGED front
    /\ UNCHANGED << fitz_handle, plumber_handle, total, parsed_text, tables, need_ocr,
                    page_text_written, ti, out_doc, bio, ret, visits, rendered, ocr_called,
                    tables_failed, raised_by >>

\* out_doc.save(bio); bio.seek(0)
Save ==
    /\ pc = "save"
    /\ bio' = Bytes(out_doc)
    /\ pc' = "close"
    /\ UNCHANGED front
    /\ UNCHANGED << fitz_handle, plumber_handle, total, i, parsed_text, tables, need_ocr,
                    page_text_written, ti, out_doc, progress, ret, visits, rendered,
                    ocr_called, tables_failed, raised_by >>

\* out_doc.save raises.
SaveFail ==
    /\ pc = "save"
    /\ Raise("save")
    /\ UNCHANGED front
    /\ UNCHANGED << fitz_handle, plumber_handle, total, i, parsed_text, tables, need_ocr,
                    page_text_written, ti, out_doc, progress, bio, ret, visits, rendered,
                    ocr_called, tables_failed >>

\* doc_fitz.close(); doc_plumber.close()
CloseHandles ==
    /\ pc = "close"
    /\ fitz_handle' = "closed"
    /\ plumber_handle' = "closed"
    /\ pc' = "return"
    /\ UNCHANGED front
    /\ UNCHANGED << total, i, parsed_text, tables, need_ocr, page_text_written, ti,
                    out_doc, progress, bio, ret, visits, rendered, ocr_called,
                    tables_failed, raised_by >>

\* return bio.read()
Return ==
    /\ pc = "return"
    /\ ret' = bio
    /\ pc' = "returned"
    /\ UNCHANGED front
    /\ UNCHANGED << fitz_handle, plumber_handle, total, i, parsed_text, tables, need_ocr,
                    page_text_written, ti, out_doc, progress, bio, visits, rendered,
                    ocr_called, tables_failed, raised_by >>

Next ==
    \/ Upload
    \/ ClickConvert
    \/ ShowDownload
    \/ ShowError
    \/ Rerun
    \/ OpenFitz
    \/ OpenFitzFail
    \/ OpenPlumber
    \/ OpenPlumberFail
    \/ LoopEnter
    \/ LoopExit
    \/ ParseText
    \/ ParseTextFail
    \/ SkipParse
    \/ ExtractTables
    \/ ExtractTablesFail
    \/ SkipTables
    \/ Decide
    \/ AddHeading
    \/ SkipHeading
    \/ AddParsedText
    \/ SkipParsedText
    \/ EnterTables
    \/ SkipTablesStep
    \/ SkipTable
    \/ EmitTable
    \/ EndTables
    \/ Render
    \/ RenderFail
    \/ SkipOcr
    \/ RunOcr
    \/ RunOcrFail
    \/ AddPlaceholder
    \/ SkipPlaceholder
    \/ ReportProgress
    \/ Save
    \/ SaveFail
    \/ CloseHandles
    \/ Return

Spec == Init /\ [][Next]_vars

(***************************************************************************)
(* Vocabulary of the properties                                            *)
(***************************************************************************)
\* The positions of a document whose block was appended for page k.
PagePositions(D, k) == {j \in DOMAIN D : D[j].page = k}

\* The blocks of a document appended for page k, in document order.
PageGroup(D, k) == SelectSeq(D, LAMBDA b : b.page = k)

\* One of the three primary-content paragraphs (steps 4, 6 and 7).
IsPrimary(b) == b.kind = "paragraph" /\ b.step \in {4, 6, 7}

IsPlaceholder(b) == b.kind = "paragraph" /\ b.text = NoExtractableContent

\* A text paragraph, a table or a placeholder paragraph.
IsVisible(b) == b.kind = "table" \/ IsPrimary(b)

PrimaryPositions(D, k) == {j \in PagePositions(D, k) : IsPrimary(D[j])}

\* The pages of the loop whose body has run to its end.
DonePages == IF pc = "progress" THEN 0..i ELSE 0..(progress - 1)

\* The parsed text of the current page calls for OCR in Auto mode.
FewLetters(text) == text = << >> \/ Letters(text) < 25

\* What a block shows, without the history fields.
Shown(b) == [kind |-> b.kind, text |-> b.text, rows |-> b.rows, cols |-> b.cols,
             cells |-> b.cells]

(***************************************************************************)
(* C1                                                                      *)
(***************************************************************************)
\* A document of n page groups: the groups follow the page order, every page
\* 0..n-1 has one, and every group holds a visible block.
Covers(D, n) ==
    /\ \A a \in DOMAIN D : a + 1 \in DOMAIN D => D[a].page <= D[a + 1].page
    /\ {D[j].page : j \in DOMAIN D} = 0..(n - 1)
    /\ \A k \in 0..(n - 1) : \E j \in PagePositions(D, k) : IsVisible(D[j])

\* C1: once the page loop of convert_pdf has completed for an N-page document,
\* the output document (and the bytes returned and offered for download) holds
\* exactly N page groups, in increasing page order, each with at least one
\* visible block: a text paragraph, a table or a placeholder paragraph.
C1_PageCoverage ==
    /\ pc \in {"save", "close", "return", "returned"} => Covers(out_doc, total)
    /\ pc = "returned" => ret = Bytes(out_doc) /\ total = file_pages
    /\ ui = "success" => pc = "returned" /\ download = [offered |-> TRUE, data |-> out_doc]

\* A two-page run has returned with a placeholder-only page and a parsed-text page.
C1_Witness ==
    /\ pc = "returned"
    /\ total = 2
    /\ \E j \in DOMAIN ret.data : ret.data[j].step = 7
    /\ \E j \in DOMAIN ret.data : ret.data[j].step = 4

OcrDue == mode = ForceOCR \/ (mode = Auto /\ FewLetters(parsed_text))

\* C3: a page is rendered and passed to OCR exactly when the mode is Force OCR,
\* or the mode is Auto and the sanitized parsed text is empty or has fewer than
\* 25 letters; Parser only never renders, and an Auto page with 25 or more
\* letters emits its parsed text without OCR.
C3_OcrExactlyWhenDue ==
    /\ rendered => OcrDue
    /\ ocr_called => rendered
    /\ pc \in {"placeholder", "progress"} => (OcrDue <=> (rendered /\ ocr_called))
    /\ mode = ParserOnly =>
          /\ ~rendered
          /\ \A j \in DOMAIN out_doc : out_doc[j].step # 6
    /\ (pc = "progress" /\ mode = ForceOCR) =>
          /\ ocr_called
          /\ \E j \in PagePositions(out_doc, i) : out_doc[j].step = 6
    /\ (pc = "progress" /\ mode = Auto /\ Letters(parsed_text) >= 25) =>
          /\ ~rendered
          /\ \E j \in PagePositions(out_doc, i) :
                out_doc[j].step = 4 /\ out_doc[j].text = parsed_text

\* An Auto page with exactly 25 letters has been completed from its parsed text.
C3_Witness ==
    /\ pc = "progress"
    /\ mode = Auto
    /\ Letters(parsed_text) = 25
    /\ ~ocr_called
    /\ \E j \in PagePositions(out_doc, i) : out_doc[j].step = 4

(***************************************************************************)
(* C4                                                                      *)
(***************************************************************************)
\* What the claim prescribes for one well-formed table.
ExpectedTable(tbl) ==
    << [kind |-> "table", text |-> << >>, rows |-> Len(tbl), cols |-> Len(tbl[1]),
        cells |-> [r \in 1..Len(tbl) |->
                     [c \in 1..Len(tbl[1]) |->
                        IF tbl[r][c].none THEN << >> ELSE clean_text(tbl[r][c].str)]]],
       [kind |-> "paragraph", text |-> << >>, rows |-> 0, cols |-> 0, cells |-> << >>] >>

RECURSIVE ExpectedTables(_)
ExpectedTables(tbls) ==
    IF tbls = << >> THEN << >>
    ELSE (IF Head(tbls) = << >> THEN << >>
          ELSE IF Head(tbls)[1] = << >> THEN << >>
          ELSE ExpectedTable(Head(tbls))) \o ExpectedTables(Tail(tbls))

\* The table blocks and spacing paragraphs of page k, as shown.
TableStepShown(k) ==
    LET g == SelectSeq(PageGroup(out_doc, k), LAMBDA b : b.step = 5)
    IN  [j \in 1..Len(g) |-> Shown(g[j])]

\* C4: on a page that needs no OCR, the tables handled so far have produced,
\* in order, nothing for a table that is empty or has an empty first row, and
\* for any other table one table block of Len(table) rows and Len(first row)
\* columns whose cell (r, c) is the sanitized string of the value (empty for
\* None), followed by one empty spacing paragraph.
C4_TablesEmitted ==
    /\ pc = "table" => TableStepShown(i) = ExpectedTables(SubSeq(tables, 1, ti - 1))
    /\ (pc \in {"ocr", "placeholder", "progress"} /\ ~need_ocr) =>
          TableStepShown(i) = ExpectedTables(tables)

\* A page with a 2x2 table, an empty table and a 1x1 table has been completed.
C4_Witness ==
    /\ pc = "progress"
    /\ ~need_ocr
    /\ Len(tables) = 3
    /\ Cardinality({j \in PagePositions(out_doc, i) : out_doc[j].kind = "table"}) = 2
    /\ \E j \in PagePositions(out_doc, i) : out_doc[j].rows = 2 /\ out_doc[j].cols = 2

(***************************************************************************)
(* C5                                                                      *)
(***************************************************************************)
\* C5: when get_text, get_pixmap or image_to_string has raised on page i, the
\* call has ended there: every page up to i was entered once and none after
\* it, only the pages before i were completed, nothing was saved or returned,
\* and the front end can only show the error; an error page offers no download.
C5_AbortOnPageFailure ==
    /\ raised_by \in {"parse", "render", "ocr"} =>
          /\ pc = "raised"
          /\ bio = NoBytes
          /\ ret = NoBytes
          /\ visits = [k \in 1..(i + 1) |-> k - 1]
          /\ progress = i
          /\ \A j \in DOMAIN out_doc : out_doc[j].page <= i
          /\ ~download.offered
          /\ ui \in {"converting", "error"}
          /\ ui = "converting" => (ENABLED ShowError) /\ ~(ENABLED ShowDownload)
    /\ ui = "error" => pc = "raised" /\ ~download.offered

\* OCR failed on the second page, a partial document exists, the error is shown.
C5_Witness ==
    /\ ui = "error"
    /\ raised_by = "ocr"
    /\ i = 1
    /\ out_doc # << >>
    /\ ~download.offered

(***************************************************************************)
(* C6                                                                      *)
(***************************************************************************)
\* C6: a page on which extract_tables raised goes on with tables = []: the call
\* can then only be left through a rendering or OCR failure, the completed page
\* has exactly one primary paragraph and no table block, and a run that leaves
\* the loop has completed every page.
C6_TableFailureIsLocal ==
    /\ i \in tables_failed => tables = << >>
    /\ (i \in tables_failed /\ pc = "raised") => raised_by \in {"render", "ocr"}
    /\ \A k \in tables_failed \cap DonePages :
          /\ Cardinality(PrimaryPositions(out_doc, k)) = 1
          /\ \A j \in PagePositions(out_doc, k) : out_doc[j].step # 5
    /\ pc \in {"save", "close", "return", "returned"} => progress = total

\* Extraction failed on the first of two pages; its parsed text was written and
\* the run returned after the second page.
C6_Witness ==
    /\ pc = "returned"
    /\ tables_failed = {0}
    /\ progress = 2
    /\ \E j \in PagePositions(out_doc, 0) : out_doc[j].step = 4
    /\ PagePositions(out_doc, 1) # {}

(***************************************************************************)
(* C7                                                                      *)
(***************************************************************************)
\* A character of the ranges 0x00-0x08, 0x0B-0x0C, 0x0E-0x1F, 0x7F.
IsControl(c) == c <= 8 \/ c = 11 \/ c = 12 \/ (14 <= c /\ c <= 31) \/ c = 127

NoControl(str) == \A k \in 1..Len(str) : ~IsControl(str[k])

Count(ch, str) == Cardinality({k \in 1..Len(str) : str[k] = ch})

BlockSanitized(b) ==
    /\ NoControl(b.text)
    /\ \A r \in DOMAIN b.cells : \A c \in DOMAIN b.cells[r] : NoControl(b.cells[r][c])

\* clean_text removes no tab and no line feed from what the libraries return.
KeepsTabAndLineFeed ==
    \A str \in RawTexts \cup OcrTexts : \A ch \in {9, 10} :
        Count(ch, clean_text(str)) = Count(ch, str)

\* C7: every string in the output document (and in the bytes saved, returned
\* and offered), and the parsed text itself, has no character in 0x00-0x08,
\* 0x0B-0x0C, 0x0E-0x1F or 0x7F; the sanitizer keeps every tab and line feed.
C7_Sanitized ==
    /\ NoControl(parsed_text)
    /\ \A j \in DOMAIN out_doc : BlockSanitized(out_doc[j])
    /\ ret.data \in {<< >>, out_doc}
    /\ download.data \in {<< >>, out_doc}
    /\ KeepsTabAndLineFeed

\* A returned document holds a parsed text with its line feed, a cell with its
\* tab and a cell emptied of its DEL.
C7_Witness ==
    /\ pc = "returned"
    /\ \E j \in DOMAIN ret.data :
          ret.data[j].step = 4 /\ Count(10, ret.data[j].text) = 1
    /\ \E j \in DOMAIN ret.data :
          /\ ret.data[j].kind = "table"
          /\ ret.data[j].rows = 2
          /\ ret.data[j].cells[1][1] = << 9, 99 >>
          /\ ret.data[j].cells[1][2] = << >>

(***************************************************************************)
(* C8                                                                      *)
(***************************************************************************)
HeadingCount(k) ==
    Cardinality({j \in PagePositions(out_doc, k) : out_doc[j].kind = "heading"})

\* C8: the blocks follow the page order and, inside a page, the order heading,
\* parsed text, tables, OCR text, placeholder; the heading reads "Page index+1"
\* at level 2, comes first in its group and is there exactly when
\* add_page_headings is set; every table block is directly followed by its
\* spacing paragraph and every spacing paragraph directly follows a table.
C8_BlockOrder ==
    /\ \A a \in DOMAIN out_doc :
          LET b == a + 1
          IN  b \in DOMAIN out_doc =>
                 \/ out_doc[a].page < out_doc[b].page
                 \/ /\ out_doc[a].page = out_doc[b].page
                    /\ out_doc[a].step <= out_doc[b].step
                    /\ out_doc[b].kind # "heading"
    /\ \A j \in DOMAIN out_doc :
          /\ out_doc[j].kind = "heading" =>
                /\ out_doc[j].level = 2
                /\ out_doc[j].text = << 80, 97, 103, 101, 32, 49 + out_doc[j].page >>
          /\ add_page_headings =>
                \E h \in 1..j : /\ out_doc[h].kind = "heading"
                                /\ out_doc[h].page = out_doc[j].page
          /\ out_doc[j].kind = "table" =>
                /\ j + 1 \in DOMAIN out_doc
                /\ Shown(out_doc[j + 1]) = Shown(Paragraph(0, 5, << >>))
                /\ out_doc[j + 1].page = out_doc[j].page
          /\ (out_doc[j].kind = "paragraph" /\ out_doc[j].step = 5) =>
                /\ j - 1 \in DOMAIN out_doc
                /\ out_doc[j - 1].kind = "table"
                /\ out_doc[j - 1].page = out_doc[j].page
    /\ \A k \in DonePages : HeadingCount(k) = IF add_page_headings THEN 1 ELSE 0

\* The second page is done with a heading, its parsed text and two tables.
C8_Witness ==
    /\ pc = "progress"
    /\ i = 1
    /\ add_page_headings
    /\ LET g == PageGroup(out_doc, 1)
       IN  /\ Len(g) = 6
           /\ g[1].kind = "heading"
           /\ g[2].step = 4
           /\ g[3].kind = "table"
           /\ g[6].step = 5

(***************************************************************************)
(* C9                                                                      *)
(***************************************************************************)
\* C9: a page that has the placeholder "[No extractable content on this page]"
\* has no text paragraph and no table block.
C9_PlaceholderOnlyWhenEmpty ==
    \A j \in DOMAIN out_doc :
        IsPlaceholder(out_doc[j]) =>
            \A m \in PagePositions(out_doc, out_doc[j].page) :
                /\ out_doc[m].kind # "table"
                /\ out_doc[m].step \notin {4, 6}

(***************************************************************************)
(* C10                                                                     *)
(***************************************************************************)
\* C10: when convert_pdf has returned, or has raised while processing a page
\* or while saving, both document handles are closed.
C10_HandlesClosedOnExit ==
    (\/ pc = "returned"
     \/ (pc = "raised" /\ raised_by \in {"parse", "render", "ocr", "save"}))
    => (fitz_handle = "closed" /\ plumber_handle = "closed")

====
